---- MODULE Spec2Model ----
(***************************************************************************)
(* Model of app.py: the job-market dashboard's data loader and its query   *)
(* handlers.  The process-wide handle job_data is None until               *)
(* load_job_data succeeds; every route lazily loads it and then reduces    *)
(* the (optionally filtered) rows to a JSON body.                          *)
(*                                                                         *)
(* Three specifications share the module:                                  *)
(*   Spec      one request at a time: file, readable, job_data, resp       *)
(*   SpecQuad  the matrix point computed from pooled task counts           *)
(*   SpecConc  requests on parallel threads, one step per read or write of *)
(*             the global job_data                                         *)
(***************************************************************************)
EXTENDS Integers, Sequences, FiniteSets, TLC

VARIABLES file, readable, job_data, resp, qin, qout, pc, df, reads, tresp

vars == <<file, readable, job_data, resp, qin, qout, pc, df, reads, tresp>>

\* ------------------------------------------------------------------ bounds
\* rows in the workbook
MaxRows == 2
\* largest pooled task count handed to the matrix point computation
MaxPool == 1001
\* pooled counts above SmallPool are taken within NearHalf of the 50% line
SmallPool == 6
NearHalf == 2
\* primary tasks in a pool handed to the matrix point computation
MaxPrimary == 2
\* request threads
NumThreads == 2

\* ------------------------------------------------------------- cell values
\* a missing cell (pandas NaN) of a text column
NA == "<NaN>"
\* a key a task dict does not carry
Absent == "<absent>"

\* a score cell: a number, or text that pd.to_numeric(errors='coerce') turns to NaN
Num(v) == [num |-> TRUE, v |-> v]
Text == [num |-> FALSE, v |-> 0]

\* str.lower() on the classifications that occur
Lower(s) ==
  CASE s = "Primary" -> "primary"
    [] s = "Not specified" -> "not specified"
    [] OTHER -> s

\* q.replace('_', ' ').title() on the questions that occur
CleanQuestion(q) ==
  CASE q = "years_experience" -> "Years Experience"
    [] q = "Years experience" -> "Years Experience"
    [] q = "physical_dexterity" -> "Physical Dexterity"
    [] OTHER -> q

\* ------------------------------------------------------------------- tasks
\* one decoded task dict: flag/cls are Absent when the key is missing, hasQ
\* tells whether the dict carries 'question' (a list of strings)
Task(f, c, h, q) == [flag |-> f, cls |-> c, hasQ |-> h, q |-> q]

TAutoPrim == Task("Automatable", "Primary", TRUE, <<"years_experience">>)
TAutoPrim2 == Task("Automatable", "primary", TRUE,
                   <<"Years experience", "physical_dexterity">>)
TManSec == Task("Not Automatable", "secondary", TRUE, <<"physical_dexterity">>)
TNoFlag == Task(Absent, "ancillary", TRUE, <<>>)
TBare == Task(Absent, Absent, FALSE, <<>>)

\* the Automatability_Analysis cell: missing, text that is no list, text that
\* starts with '[' and is no JSON, or a JSON list of task dicts
CellNaN == [kind |-> "nan", tasks |-> <<>>]
CellText == [kind |-> "text", tasks |-> <<>>]
CellBadList == [kind |-> "badlist", tasks |-> <<>>]
CellList(ts) == [kind |-> "list", tasks |-> ts]

\* ---------------------------------------------------------------- workbook
Levels == 1..4

Lv(l1, l4) == [k \in Levels |-> IF k = 1 THEN l1 ELSE IF k = 4 THEN l4 ELSE "Mid"]

RawRow(a, m, l1, l4, s, cell) ==
  [auto |-> a, manual |-> m, lv |-> Lv(l1, l4), sector |-> s, cell |-> cell]

RowLegal ==
  RawRow(Num(20), Num(70), "Services", "Legal", "Law", CellList(<<TAutoPrim, TManSec>>))
RowHealth ==
  RawRow(Num(30), Num(50), NA, "Health", "Care", CellList(<<TNoFlag, TAutoPrim2>>))
RowNoLevel4 == RawRow(Num(60), Num(45), "Care", NA, NA, CellText)
RowNoTasks == RawRow(Num(45), Num(45), "Care", "Health", "Care", CellNaN)
RowBareTask == RawRow(Num(10), Num(90), "Care", "Legal", "Care", CellList(<<TBare>>))
RowBadScore == RawRow(Text, Num(50), "Services", "Legal", "Law", CellBadList)
RowBadCell == RawRow(Num(80), Num(20), "Services", "Health", "Law", CellBadList)

RowSet ==
  {RowLegal, RowHealth, RowNoLevel4, RowNoTasks, RowBareTask, RowBadScore, RowBadCell}

\* the columns a workbook carries besides the scores and the task cell
Schemas ==
  { [levels |-> {1, 2, 3, 4}, hasSector |-> TRUE],
    [levels |-> {1, 2}, hasSector |-> FALSE] }

RowSeqs == UNION { [1..n -> RowSet] : n \in 0..MaxRows }

Files == [schema : Schemas, rows : RowSeqs]

\* ------------------------------------------------------------ sequence help
RECURSIVE SeqSum(_)
SeqSum(s) == IF s = <<>> THEN 0 ELSE Head(s) + SeqSum(Tail(s))

Count(s, P(_)) == Cardinality({i \in DOMAIN s : P(s[i])})

Range(s) == {s[i] : i \in DOMAIN s}

\* the distinct elements of s in order of first occurrence
RECURSIVE Distinct(_)
Distinct(s) ==
  IF s = <<>> THEN <<>>
  ELSE LET rest == Distinct(SelectSeq(Tail(s), LAMBDA x : x # Head(s)))
       IN <<Head(s)>> \o rest

\* entries [name, count] by count descending, equal counts in the order given
RECURSIVE ByCountDesc(_)
ByCountDesc(s) ==
  IF s = <<>> THEN <<>>
  ELSE LET top == CHOOSE i \in DOMAIN s :
                    /\ \A j \in DOMAIN s : s[j].count <= s[i].count
                    /\ \A j \in 1..(i - 1) : s[j].count < s[i].count
           rest == [j \in 1..(Len(s) - 1) |-> IF j < top THEN s[j] ELSE s[j + 1]]
       IN <<s[top]>> \o ByCountDesc(rest)

\* the integers nearest to num/den; an exact half may come out either way in
\* binary floating point
RoundDiv(num, den) ==
  LET q == num \div den
      r == num % den
  IN IF 2 * r < den THEN {q} ELSE IF 2 * r > den THEN {q + 1} ELSE {q, q + 1}

\* round(100 * a / n, 1), in tenths of a percent
RoundPct(a, n) == RoundDiv(1000 * a, n)

\* ------------------------------------------------------------ load_job_data
\* job_data = None
None == [loaded |-> FALSE, levels |-> {}, hasSector |-> FALSE, rows |-> <<>>]

\* the frame pd.read_excel returns: the rows under their index labels
ReadExcel(f) ==
  [i \in DOMAIN f.rows |-> [idx |-> i, auto |-> f.rows[i].auto, manual |-> f.rows[i].manual,
                            lv |-> f.rows[i].lv, sector |-> f.rows[i].sector,
                            cell |-> f.rows[i].cell]]

\* to_numeric(errors='coerce') on both scores, then dropna on them
DropNa(rows) == SelectSeq(rows, LAMBDA r : r.auto.num /\ r.manual.num)

\* json.loads raises on a cell that starts with '[' and does not decode
ParseRaises(rows) == \E i \in DOMAIN rows : rows[i].cell.kind = "badlist"

ParseCell(cell) == IF cell.kind = "list" THEN cell.tasks ELSE <<>>

Parsed(rows) ==
  [i \in DOMAIN rows |-> [idx |-> rows[i].idx, auto |-> rows[i].auto.v,
                          manual |-> rows[i].manual.v, lv |-> rows[i].lv,
                          sector |-> rows[i].sector, tasks |-> ParseCell(rows[i].cell)]]

NewStore(f) ==
  [loaded |-> TRUE, levels |-> f.schema.levels, hasSector |-> f.schema.hasSector,
   rows |-> Parsed(DropNa(ReadExcel(f)))]

\* load_job_data(): the value it returns and the job_data it leaves, given the
\* job_data it found, the workbook and whether the workbook can be read
load_job_data(old, f, rd) ==
  IF ~rd \/ ParseRaises(DropNa(ReadExcel(f)))
  THEN [ok |-> FALSE, data |-> old]
  ELSE [ok |-> TRUE, data |-> NewStore(f)]

\* the guard with the loader's return value ignored
EnsureIgnoringFailure(jd, f, rd) ==
  IF jd.loaded THEN [proceed |-> TRUE, data |-> jd, load |-> "none"]
  ELSE LET r == load_job_data(jd, f, rd)
       IN [proceed |-> TRUE, data |-> r.data, load |-> IF r.ok THEN "ok" ELSE "failed"]

\* "if job_data is None and not load_job_data()": proceed tells whether the
\* handler goes on, data is job_data afterwards, load what the loader did
Ensure(jd, f, rd) ==
  IF jd.loaded THEN [proceed |-> TRUE, data |-> jd, load |-> "none"]
  ELSE LET r == load_job_data(jd, f, rd)
       IN [proceed |-> r.ok, data |-> r.data, load |-> IF r.ok THEN "ok" ELSE "failed"]

\* ---------------------------------------------------------------- responses
Ok(body) == [kind |-> "ok", status |-> 200, body |-> body]
NoData == [kind |-> "error", status |-> 500, body |-> [error |-> "No data available"]]
LevelNotAvailable ==
  [kind |-> "error", status |-> 400, body |-> [error |-> "Level not available"]]
\* an exception no handler catches: Flask answers 500
Crash(what) == [kind |-> "crash", status |-> 500, body |-> [exception |-> what]]

\* ------------------------------------------------------------------ filter
\* filtered_data: the category filter is applied only when a category is
\* given and the level's column exists; a NaN cell equals no category
FilterData(jd, level, category) ==
  IF category # "" /\ level \in jd.levels
  THEN SelectSeq(jd.rows, LAMBDA r : r.lv[level] # NA /\ r.lv[level] = category)
  ELSE jd.rows

\* ----------------------------------------------------------- get_categories
\* value_counts(dropna=False): the missing value counted as a category
ValueCountsKeepNa(rows, level) ==
  LET vals == [i \in DOMAIN rows |-> rows[i].lv[level]]
      names == Distinct(vals)
  IN [i \in DOMAIN names |->
        [name |-> names[i], count |-> Count(vals, LAMBDA v : v = names[i])]]

\* value_counts(): the non-missing values with their counts
ValueCounts(rows, level) ==
  LET vals == [i \in DOMAIN rows |-> rows[i].lv[level]]
      names == Distinct(SelectSeq(vals, LAMBDA v : v # NA))
  IN [i \in DOMAIN names |->
        [name |-> names[i], count |-> Count(vals, LAMBDA v : v = names[i])]]

CategoryCounts(jd, level) == ByCountDesc(ValueCounts(jd.rows, level))

get_categories(jd, level) ==
  IF level \notin jd.levels THEN LevelNotAvailable
  ELSE Ok(CategoryCounts(jd, level))

\* ----------------------------------------------------- get_available_levels
NUnique(rows, level) == Cardinality({rows[i].lv[level] : i \in DOMAIN rows} \ {NA})

get_available_levels(jd) ==
  LET present == SelectSeq(<<1, 2, 3, 4>>, LAMBDA i : i \in jd.levels)
  IN Ok([k \in DOMAIN present |->
           [level |-> present[k], count |-> NUnique(jd.rows, present[k])]])

\* ---------------------------------------------------------------- get_stats
\* round(mean, 1) in tenths; the mean of no rows is NaN
RoundMean(vals) ==
  IF vals = <<>> THEN {-1} ELSE RoundDiv(10 * SeqSum(vals), Len(vals))

SectorCount(jd) ==
  IF jd.hasSector THEN Cardinality({jd.rows[i].sector : i \in DOMAIN jd.rows} \ {NA})
  ELSE 0

get_stats(jd) ==
  IF 4 \notin jd.levels THEN {Crash("KeyError: level_4_name")}
  ELSE { Ok([total_jobs |-> Len(jd.rows),
             unique_level_4_categories |-> NUnique(jd.rows, 4),
             sector_count |-> SectorCount(jd),
             avg_auto_score |-> a, avg_manual_score |-> m,
             avg_is_nan |-> (jd.rows = <<>>)]) :
           a \in RoundMean([i \in DOMAIN jd.rows |-> jd.rows[i].auto]),
           m \in RoundMean([i \in DOMAIN jd.rows |-> jd.rows[i].manual]) }

\* ----------------------------------------------------------------- get_jobs
get_jobs(jd, level, category) ==
  LET fd == FilterData(jd, level, category)
  IN Ok([i \in DOMAIN fd |->
           [auto_score |-> fd[i].auto, manual_score |-> fd[i].manual,
            levels |-> [k \in jd.levels |-> fd[i].lv[k]]]])

\* ---------------------------------------------------- get_risk_distribution
get_risk_distribution(jd, level, category) ==
  LET fd == FilterData(jd, level, category)
  IN Ok([low_risk |-> Count(fd, LAMBDA r : r.auto < 30),
         medium_risk |-> Count(fd, LAMBDA r : r.auto >= 30 /\ r.auto < 60),
         high_risk |-> Count(fd, LAMBDA r : r.auto >= 60),
         total |-> Len(fd)])

\* ----------------------------------------------------- get_automation_matrix
\* all_tasks: the task lists of the rows, flattened in row order
RECURSIVE Pool(_)
Pool(rows) == IF rows = <<>> THEN <<>> ELSE Head(rows).tasks \o Pool(Tail(rows))

IsAuto(t) == t.flag = "Automatable"
\* tasks_df['importance_classification'].str.lower() == 'primary': a missing
\* value is NaN and equals nothing
IsPrimary(t) == t.cls # Absent /\ Lower(t.cls) = "primary"

\* pd.DataFrame(all_tasks) has a column for every key some task carries
HasColumnFlag(tasks) == \E i \in DOMAIN tasks : tasks[i].flag # Absent
HasColumnCls(tasks) == \E i \in DOMAIN tasks : tasks[i].cls # Absent
HasColumnQuestion(tasks) == \E i \in DOMAIN tasks : tasks[i].hasQ

\* the if/elif chain on the unrounded percentages: a of n tasks automatable,
\* pa of p primary tasks automatable (no primary task: 0 percent)
\* the threshold with 50 on the lower side
OverallHighExclusive(a, n) == 2 * a > n

OverallHigh(a, n) == 2 * a >= n
PrimaryHigh(pa, p) == p > 0 /\ 2 * pa >= p

Quadrant(a, n, pa, p) ==
  IF ~OverallHigh(a, n) /\ PrimaryHigh(pa, p) THEN "upper_left"
  ELSE IF OverallHigh(a, n) /\ PrimaryHigh(pa, p) THEN "upper_right"
  ELSE IF ~OverallHigh(a, n) /\ ~PrimaryHigh(pa, p) THEN "lower_left"
  ELSE "lower_right"

Color(q) ==
  CASE q = "upper_left" -> "#8B5CF6"
    [] q = "upper_right" -> "#EF4444"
    [] q = "lower_left" -> "#10B981"
    [] OTHER -> "#F59E0B"

\* the point appended for one category, for each way the two percentages can
\* round: percentages in tenths
MatrixPoints(cat, jobs, n, a, p, pa) ==
  { [category |-> cat, overall_automation_pct |-> ro, primary_automation_pct |-> rp,
     total_tasks |-> n, primary_tasks |-> p, total_jobs |-> jobs,
     quadrant |-> Quadrant(a, n, pa, p), color |-> Color(Quadrant(a, n, pa, p))] :
      ro \in RoundPct(a, n), rp \in IF p = 0 THEN {0} ELSE RoundPct(pa, p) }

\* groupby('level_4_name'): the non-missing keys in sorted order
NameOrder == <<"Health", "Legal">>
GroupKeys(fd) == SelectSeq(NameOrder, LAMBDA c : \E i \in DOMAIN fd : fd[i].lv[4] = c)
Group(fd, c) == SelectSeq(fd, LAMBDA r : r.lv[4] = c)

\* a group whose pooled tasks make the column lookups raise KeyError
GroupRaises(g) ==
  LET tasks == Pool(g)
  IN tasks # <<>> /\ (~HasColumnFlag(tasks) \/ ~HasColumnCls(tasks))

GroupPoints(c, g) ==
  LET tasks == Pool(g)
      prim == SelectSeq(tasks, IsPrimary)
  IN MatrixPoints(c, Len(g), Len(tasks), Count(tasks, IsAuto),
                  Len(prim), Count(prim, IsAuto))

\* the results lists the loop over the groups can build
RECURSIVE MatrixResults(_, _)
MatrixResults(fd, keys) ==
  IF keys = <<>> THEN {<<>>}
  ELSE LET g == Group(fd, Head(keys))
           rest == MatrixResults(fd, Tail(keys))
       IN IF Pool(g) = <<>> THEN rest
          ELSE {<<pt>> \o r : pt \in GroupPoints(Head(keys), g), r \in rest}

get_automation_matrix(jd, level, category) ==
  LET fd == FilterData(jd, level, category)
  IN IF fd = <<>> THEN {Ok([matrix_data |-> <<>>])}
     ELSE IF 4 \notin jd.levels THEN {Crash("KeyError: level_4_name")}
     ELSE IF \E c \in Range(GroupKeys(fd)) : GroupRaises(Group(fd, c))
          THEN {Crash("KeyError: task column")}
     ELSE {Ok([matrix_data |-> m]) : m \in MatrixResults(fd, GroupKeys(fd))}

\* -------------------------------------------------------- get_task_analysis
\* the body returned when no row of the filtered data carries a task
ZeroAnalysis ==
  [total_tasks |-> 0,
   automation_status |-> [automatable |-> 0, non_automatable |-> 0],
   task_type_distribution |-> [primary |-> 0, secondary |-> 0, ancillary |-> 0],
   automation_by_type |-> <<>>,
   automation_drivers |-> <<>>,
   automation_barriers |-> <<>>]

\* task.get('importance_classification', default).lower()
TypeOf(t, default) == IF t.cls = Absent THEN Lower(default) ELSE Lower(t.cls)

TaskTypes == <<"primary", "secondary", "ancillary">>

\* most_common(10)
TopN == 10

\* extract_questions_fast: the cleaned questions of the tasks that carry a
\* non-empty question list, in order
RECURSIVE Questions(_)
Questions(tasks) ==
  IF tasks = <<>> THEN <<>>
  ELSE LET t == Head(tasks)
           qs == IF t.hasQ THEN [i \in DOMAIN t.q |-> CleanQuestion(t.q[i])] ELSE <<>>
       IN qs \o Questions(Tail(tasks))

\* Counter(...).most_common(10) as [reason, count] entries
MostCommon(qs) ==
  LET names == Distinct(qs)
      counted == [i \in DOMAIN names |->
                    [name |-> names[i], count |-> Count(qs, LAMBDA q : q = names[i])]]
      sorted == ByCountDesc(counted)
      top == SubSeq(sorted, 1, IF Len(sorted) < TopN THEN Len(sorted) ELSE TopN)
  IN [i \in DOMAIN top |-> [reason |-> top[i].name, count |-> top[i].count]]

automation_drivers(tasks) == MostCommon(Questions(SelectSeq(tasks, IsAuto)))
automation_barriers(tasks) ==
  MostCommon(Questions(SelectSeq(tasks, LAMBDA t : ~IsAuto(t))))

\* automation_by_type: an entry for each of the three types some task has
TypeTasks(tasks, ty) == SelectSeq(tasks, LAMBDA t : TypeOf(t, "") = ty)
PresentTypes(tasks) == {ty \in Range(TaskTypes) : TypeTasks(tasks, ty) # <<>>}

ByTypeSet(tasks) ==
  LET pt == PresentTypes(tasks)
      au(ty) == Count(TypeTasks(tasks, ty), IsAuto)
      tot(ty) == Len(TypeTasks(tasks, ty))
      pcts == {f \in [pt -> UNION {RoundPct(au(ty), tot(ty)) : ty \in pt}] :
                 \A ty \in pt : f[ty] \in RoundPct(au(ty), tot(ty))}
  IN { [ty \in pt |-> [automatable |-> au(ty), non_automatable |-> tot(ty) - au(ty),
                        total |-> tot(ty), automation_percentage |-> f[ty]]] :
         f \in pcts }

AnalysisBodies(tasks, jobs) ==
  LET auto == Count(tasks, IsAuto)
      ty(name) == Count(tasks, LAMBDA t : TypeOf(t, "Not specified") = name)
  IN { [total_tasks |-> Len(tasks),
        total_jobs |-> jobs,
        automation_status |-> [automatable |-> auto, non_automatable |-> Len(tasks) - auto],
        task_type_distribution |->
          [primary |-> ty("primary"), secondary |-> ty("secondary"),
           ancillary |-> ty("ancillary"),
           other |-> Count(tasks, LAMBDA t : TypeOf(t, "Not specified") \notin Range(TaskTypes))],
        automation_by_type |-> bt,
        automation_drivers |-> automation_drivers(tasks),
        automation_barriers |-> automation_barriers(tasks)] :
         bt \in ByTypeSet(tasks) }

\* the handler's answer from the filtered rows on
AnalyseRows(fd) ==
  LET tasks == Pool(fd)
  IN IF tasks = <<>> THEN {Ok(ZeroAnalysis)}
     ELSE IF ~HasColumnFlag(tasks) THEN {Crash("KeyError: automatability_flag")}
     ELSE IF ~HasColumnQuestion(tasks) THEN {Crash("KeyError: question")}
     ELSE {Ok(b) : b \in AnalysisBodies(tasks, Len(fd))}

get_task_analysis(jd, level, category) == AnalyseRows(FilterData(jd, level, category))

\* ------------------------------------------------------- one request at a time
\* request parameters: level 5 names no column of any workbook, "" is the
\* category left out; "Legal" is a level-4 name of some workbooks and of no
\* other level
ReqLevels == {1, 4, 5}
ReqCategories == {"", "Legal"}

\* the variables of the other two specifications, at rest
QuadIdle == qin = [n |-> 0, a |-> 0, p |-> 0, pa |-> 0] /\ qout = <<>>
ConcIdle == pc = <<>> /\ df = <<>> /\ reads = <<>> /\ tresp = <<>>

NoResp ==
  [route |-> "none", level |-> 0, category |-> "", load |-> "none", readable |-> FALSE,
   kind |-> "none", status |-> 0, body |-> <<>>]

\* the answer r to a request, with what the lazy load did (e) and whether the
\* workbook could be read when it was made
Answer(route, level, category, e, r) ==
  [route |-> route, level |-> level, category |-> category, load |-> e.load,
   readable |-> readable, kind |-> r.kind, status |-> r.status, body |-> r.body]

\* job_data as a handler finds it after its lazy load
Loaded == Ensure(job_data, file, readable).data

\* a handler up to its return: the lazy load, then one of the answers rs it
\* computes from Loaded; each outcome is the job_data left behind and the
\* answer
Served(route, level, category, rs) ==
  LET e == Ensure(job_data, file, readable)
  IN IF ~e.proceed
     THEN {[data |-> e.data, resp |-> Answer(route, level, category, e, NoData)]}
     ELSE {[data |-> e.data, resp |-> Answer(route, level, category, e, r)] : r \in rs}

Init ==
  /\ file \in Files
  /\ readable \in BOOLEAN
  /\ job_data = None
  /\ resp = NoResp
  /\ QuadIdle
  /\ ConcIdle

\* the workbook appears or disappears on disk
SourceToggle ==
  /\ readable' = ~readable
  /\ UNCHANGED <<file, job_data, resp, qin, qout, pc, df, reads, tresp>>

Index ==
  LET e == Ensure(job_data, file, readable)
      page == IF e.proceed THEN Ok([template |-> "index.html"])
              ELSE [kind |-> "error", status |-> 200,
                    body |-> [error |-> "Error: Could not load job data."]]
  IN /\ job_data' = e.data
     /\ resp' = Answer("index", 0, "", e, page)
     /\ UNCHANGED <<file, readable, qin, qout, pc, df, reads, tresp>>

GetCategories ==
  \E level \in ReqLevels :
    \E o \in Served("categories", level, "", {get_categories(Loaded, level)}) :
      /\ job_data' = o.data
      /\ resp' = o.resp
      /\ UNCHANGED <<file, readable, qin, qout, pc, df, reads, tresp>>

GetAvailableLevels ==
  \E o \in Served("levels", 0, "", {get_available_levels(Loaded)}) :
    /\ job_data' = o.data
    /\ resp' = o.resp
    /\ UNCHANGED <<file, readable, qin, qout, pc, df, reads, tresp>>

GetStats ==
  \E o \in Served("stats", 0, "", get_stats(Loaded)) :
    /\ job_data' = o.data
    /\ resp' = o.resp
    /\ UNCHANGED <<file, readable, qin, qout, pc, df, reads, tresp>>

GetJobs ==
  \E level \in ReqLevels, category \in ReqCategories :
    \E o \in Served("jobs", level, category,
                    {get_jobs(Loaded, level, category)}) :
      /\ job_data' = o.data
      /\ resp' = o.resp
      /\ UNCHANGED <<file, readable, qin, qout, pc, df, reads, tresp>>

GetAutomationMatrix ==
  \E level \in ReqLevels, category \in ReqCategories :
    \E o \in Served("automation_matrix", level, category,
                    get_automation_matrix(Loaded, level, category)) :
      /\ job_data' = o.data
      /\ resp' = o.resp
      /\ UNCHANGED <<file, readable, qin, qout, pc, df, reads, tresp>>

GetTaskAnalysis ==
  \E level \in ReqLevels, category \in ReqCategories :
    \E o \in Served("task_analysis", level, category,
                    get_task_analysis(Loaded, level, category)) :
      /\ job_data' = o.data
      /\ resp' = o.resp
      /\ UNCHANGED <<file, readable, qin, qout, pc, df, reads, tresp>>

GetRiskDistribution ==
  \E level \in ReqLevels, category \in ReqCategories :
    \E o \in Served("risk_distribution", level, category,
                    {get_risk_distribution(Loaded, level, category)}) :
      /\ job_data' = o.data
      /\ resp' = o.resp
      /\ UNCHANGED <<file, readable, qin, qout, pc, df, reads, tresp>>

Next ==
  \/ SourceToggle
  \/ Index
  \/ GetCategories
  \/ GetAvailableLevels
  \/ GetStats
  \/ GetJobs
  \/ GetAutomationMatrix
  \/ GetTaskAnalysis
  \/ GetRiskDistribution

Spec == Init /\ [][Next]_vars

\* ------------------------------------------- the matrix point from its counts
Min(x, y) == IF x < y THEN x ELSE y

\* automatable counts of a pool of n tasks: all of them for a small pool,
\* those within NearHalf of half the pool for a large one
AutoCounts(n) ==
  IF n <= SmallPool THEN 0..n
  ELSE {a \in ((n - NearHalf) \div 2)..((n + NearHalf) \div 2 + 1) :
          2 * a - n \in (0 - NearHalf)..NearHalf}

\* n pooled tasks, a of them automatable, p primary, pa primary and automatable
PoolCounts(n) ==
  UNION { { [n |-> n, a |-> a, p |-> p, pa |-> pa] :
              pa \in {x \in 0..Min(p, a) : p - x <= n - a} } :
            a \in AutoCounts(n), p \in 0..Min(MaxPrimary, n) }

QuadInputs == UNION {PoolCounts(n) : n \in 1..MaxPool}

SeqIdle ==
  /\ file = [schema |-> [levels |-> {}, hasSector |-> FALSE], rows |-> <<>>]
  /\ readable = FALSE
  /\ job_data = None
  /\ resp = NoResp

InitQuad ==
  /\ qin \in QuadInputs
  /\ qout = <<>>
  /\ SeqIdle
  /\ ConcIdle

\* results.append(...) for one category whose pool has the counts qin
AppendPoint ==
  /\ qout = <<>>
  /\ \E pt \in MatrixPoints("Legal", 1, qin.n, qin.a, qin.p, qin.pa) : qout' = <<pt>>
  /\ UNCHANGED <<qin, file, readable, job_data, resp, pc, df, reads, tresp>>

NextQuad == AppendPoint

SpecQuad == InitQuad /\ [][NextQuad]_vars

\* ------------------------------------------------ requests on parallel threads
\* /api/task_analysis served by NumThreads threads of the development
\* server, each taking one request; a step is one read or write of the
\* global job_data or one statement on the thread's own frame
Threads == 1..NumThreads

FullSchema == [levels |-> {1, 2, 3, 4}, hasSector |-> TRUE]

\* the workbooks job_data.xlsx is replaced by while the server runs
ConcFiles ==
  { [schema |-> FullSchema, rows |-> <<RowLegal>>],
    [schema |-> FullSchema, rows |-> <<RowHealth, RowLegal>>],
    [schema |-> [levels |-> {1, 2}, hasSector |-> FALSE], rows |-> <<RowBadCell>>] }

NoFrame == [stage |-> "none", schema |-> [levels |-> {}, hasSector |-> FALSE], rows |-> <<>>]

NoAnswer == [category |-> "", kind |-> "none", status |-> 0, body |-> <<>>]

InitConc ==
  /\ file \in ConcFiles
  /\ readable \in BOOLEAN
  /\ job_data = None
  /\ resp = NoResp
  /\ QuadIdle
  /\ pc = [t \in Threads |-> "idle"]
  /\ df = [t \in Threads |-> NoFrame]
  /\ reads = [t \in Threads |-> <<>>]
  /\ tresp = [t \in Threads |-> NoAnswer]

ConcRest == <<resp, qin, qout>>

\* the workbook is replaced on disk
FileChange ==
  /\ \E f \in ConcFiles : f # file /\ file' = f
  /\ UNCHANGED <<readable, job_data, pc, df, reads, tresp>>
  /\ UNCHANGED ConcRest

\* the workbook appears or disappears on disk
ConcToggle ==
  /\ readable' = ~readable
  /\ UNCHANGED <<file, job_data, pc, df, reads, tresp>>
  /\ UNCHANGED ConcRest

\* a read of the global: the statement that read it and the frame it saw
Seen(where) == [at |-> where, data |-> job_data]

\* a request arrives: level 4, with or without a category
Start(t) ==
  /\ pc[t] = "idle"
  /\ \E c \in {"", "Legal"} : tresp' = [tresp EXCEPT ![t].category = c]
  /\ pc' = [pc EXCEPT ![t] = "guard"]
  /\ UNCHANGED <<file, readable, job_data, df, reads>>
  /\ UNCHANGED ConcRest

\* "job_data is None": the first read of the handle
Guard(t) ==
  /\ pc[t] = "guard"
  /\ IF job_data.loaded
     THEN /\ reads' = [reads EXCEPT ![t] = Append(@, Seen("guard"))]
          /\ pc' = [pc EXCEPT ![t] = "filtered"]
     ELSE /\ reads' = reads
          /\ pc' = [pc EXCEPT ![t] = "read_excel"]
  /\ UNCHANGED <<file, readable, job_data, df, tresp>>
  /\ UNCHANGED ConcRest

\* the loader raised: it returns False and the handler answers 500
LoadFailed(t) ==
  /\ pc' = [pc EXCEPT ![t] = "done"]
  /\ tresp' = [tresp EXCEPT ![t].kind = NoData.kind, ![t].status = NoData.status,
                            ![t].body = NoData.body]

\* df = pd.read_excel('job_data.xlsx')
LoadReadExcel(t) ==
  /\ pc[t] = "read_excel"
  /\ IF readable
     THEN /\ df' = [df EXCEPT ![t] = [stage |-> "read", schema |-> file.schema,
                                      rows |-> ReadExcel(file)]]
          /\ pc' = [pc EXCEPT ![t] = "dropna"]
          /\ tresp' = tresp
     ELSE /\ df' = df
          /\ LoadFailed(t)
  /\ UNCHANGED <<file, readable, job_data, reads>>
  /\ UNCHANGED ConcRest

\* the two to_numeric lines and dropna(inplace=True), on the thread's frame
LoadDropNa(t) ==
  /\ pc[t] = "dropna"
  /\ df' = [df EXCEPT ![t].stage = "dropped", ![t].rows = DropNa(@)]
  /\ pc' = [pc EXCEPT ![t] = "parse"]
  /\ UNCHANGED <<file, readable, job_data, reads, tresp>>
  /\ UNCHANGED ConcRest

\* the apply that decodes every task cell
LoadParse(t) ==
  /\ pc[t] = "parse"
  /\ IF ParseRaises(df[t].rows)
     THEN /\ df' = df
          /\ LoadFailed(t)
     ELSE /\ df' = [df EXCEPT ![t].stage = "parsed", ![t].rows = Parsed(@)]
          /\ pc' = [pc EXCEPT ![t] = "assign"]
          /\ tresp' = tresp
  /\ UNCHANGED <<file, readable, job_data, reads>>
  /\ UNCHANGED ConcRest

\* job_data = df
LoadAssign(t) ==
  /\ pc[t] = "assign"
  /\ job_data' = [loaded |-> TRUE, levels |-> df[t].schema.levels,
                  hasSector |-> df[t].schema.hasSector, rows |-> df[t].rows]
  /\ pc' = [pc EXCEPT ![t] = "filtered"]
  /\ UNCHANGED <<file, readable, df, reads, tresp>>
  /\ UNCHANGED ConcRest

\* filtered_data = job_data
ReadFiltered(t) ==
  /\ pc[t] = "filtered"
  /\ reads' = [reads EXCEPT ![t] = Append(@, Seen("filtered"))]
  /\ pc' = [pc EXCEPT ![t] = IF tresp[t].category # "" THEN "columns" ELSE "analyse"]
  /\ UNCHANGED <<file, readable, job_data, df, tresp>>
  /\ UNCHANGED ConcRest

\* level_column in job_data.columns
ReadColumns(t) ==
  /\ pc[t] = "columns"
  /\ reads' = [reads EXCEPT ![t] = Append(@, Seen("columns"))]
  /\ pc' = [pc EXCEPT ![t] = IF 4 \in job_data.levels THEN "outer" ELSE "analyse"]
  /\ UNCHANGED <<file, readable, job_data, df, tresp>>
  /\ UNCHANGED ConcRest

\* job_data[...]: the frame that is indexed
ReadOuter(t) ==
  /\ pc[t] = "outer"
  /\ reads' = [reads EXCEPT ![t] = Append(@, Seen("outer"))]
  /\ pc' = [pc EXCEPT ![t] = "inner"]
  /\ UNCHANGED <<file, readable, job_data, df, tresp>>
  /\ UNCHANGED ConcRest

\* job_data[level_column] == category: the frame the mask is taken from
ReadInner(t) ==
  /\ pc[t] = "inner"
  /\ reads' = [reads EXCEPT ![t] = Append(@, Seen("inner"))]
  /\ pc' = [pc EXCEPT ![t] = "analyse"]
  /\ UNCHANGED <<file, readable, job_data, df, tresp>>
  /\ UNCHANGED ConcRest

IdxOf(rows) == {rows[i].idx : i \in DOMAIN rows}

\* the rows of outer the mask taken from inner keeps: the mask is aligned on
\* the index labels, and a label of outer it lacks raises IndexingError
Masked(outer, inner, category) ==
  SelectSeq(outer.rows,
            LAMBDA r : \E i \in DOMAIN inner.rows :
                         /\ inner.rows[i].idx = r.idx
                         /\ inner.rows[i].lv[4] # NA
                         /\ inner.rows[i].lv[4] = category)

HasRead(rd, where) == \E i \in DOMAIN rd : rd[i].at = where
ReadAt(rd, where) == rd[CHOOSE i \in DOMAIN rd : rd[i].at = where].data

\* the filter and the analysis on the frames the request read
AnswersOf(rd, category) ==
  IF ~HasRead(rd, "outer") THEN AnalyseRows(ReadAt(rd, "filtered").rows)
  ELSE LET outer == ReadAt(rd, "outer")
           inner == ReadAt(rd, "inner")
       IN IF 4 \notin inner.levels THEN {Crash("KeyError: level_4_name")}
          ELSE IF ~(IdxOf(outer.rows) \subseteq IdxOf(inner.rows))
               THEN {Crash("IndexingError")}
          ELSE AnalyseRows(Masked(outer, inner, category))

\* the rest of the handler, on the thread's own filtered_data
Analyse(t) ==
  /\ pc[t] = "analyse"
  /\ \E r \in AnswersOf(reads[t], tresp[t].category) :
       tresp' = [tresp EXCEPT ![t].kind = r.kind, ![t].status = r.status,
                              ![t].body = r.body]
  /\ pc' = [pc EXCEPT ![t] = "done"]
  /\ UNCHANGED <<file, readable, job_data, df, reads>>
  /\ UNCHANGED ConcRest

NextConc ==
  \/ FileChange
  \/ ConcToggle
  \/ \E t \in Threads :
       \/ Start(t)
       \/ Guard(t)
       \/ LoadReadExcel(t)
       \/ LoadDropNa(t)
       \/ LoadParse(t)
       \/ LoadAssign(t)
       \/ ReadFiltered(t)
       \/ ReadColumns(t)
       \/ ReadOuter(t)
       \/ ReadInner(t)
       \/ Analyse(t)

SpecConc == InitConc /\ [][NextConc]_vars

\* ------------------------------------------------------------------ claims
\* the routes that take the (level, category) filter
FilteredRoutes == {"automation_matrix", "task_analysis", "risk_distribution"}

\* the last request was answered by a handler that went past the lazy load
Handled == resp.route # "none" /\ resp.load # "failed" /\ job_data.loaded

\* the rows the last request's filter selects
RespRows == FilterData(job_data, resp.level, resp.category)

\* C1: a filtered query, or the category list, asked for a level that is no
\* column of the loaded data answers with an invalid-level error, whether or
\* not a category is given; it never answers with a result over the data.
C1_InvalidLevelIsAnError ==
  (/\ Handled
   /\ resp.route \in FilteredRoutes \cup {"categories"}
   /\ resp.level \notin job_data.levels)
  => resp.kind = "error" /\ resp.status = 400

\* C2: when a row that survives the score check has a task cell that starts
\* with '[' and does not decode, a load of the readable workbook succeeds and
\* keeps every such row, the undecodable one with no tasks.
C2_MalformedCellTolerated ==
  (/\ resp.load # "none"
   /\ resp.readable
   /\ ParseRaises(DropNa(ReadExcel(file))))
  => /\ resp.load = "ok"
     /\ job_data.loaded
     /\ job_data.rows = Parsed(DropNa(ReadExcel(file)))

\* C3: a load that fails leaves job_data None and the query answers 500 "No
\* data available"; while nothing is loaded no answer carries a result.
C3_FailedLoadAnswersNoData ==
  /\ resp.load = "failed" =>
       /\ job_data = None
       /\ resp.kind = "error"
       /\ resp.route # "index" => resp.status = 500 /\ resp.body = NoData.body
  /\ ~job_data.loaded => resp.kind \in {"none", "error"}

\* C3 witness: the matrix was asked for while the workbook could not be read,
\* the load failed and the answer is the 500.
C3_Witness ==
  /\ resp.load = "failed"
  /\ ~resp.readable
  /\ resp.route = "automation_matrix"
  /\ resp.status = 500
  /\ job_data = None

FilterIdx(level, c) ==
  LET fd == FilterData(job_data, level, c) IN {fd[i].idx : i \in DOMAIN fd}

AllIdx == {job_data.rows[i].idx : i \in DOMAIN job_data.rows}

\* the rows whose cell at the level is not missing
ValuedIdx(level) ==
  {job_data.rows[i].idx : i \in {j \in DOMAIN job_data.rows : job_data.rows[j].lv[level] # NA}}

CategoriesAnswered == Handled /\ resp.route = "categories" /\ resp.kind = "ok"

Disjoint(level, cc) ==
  \A i, j \in DOMAIN cc :
    i # j => FilterIdx(level, cc[i].name) \cap FilterIdx(level, cc[j].name) = {}

\* C4 as claimed: at a valid level, filtering by each name the category list
\* returns gives pairwise disjoint sets of rows whose union is every row of
\* the data, rows with a missing value at the level included, and the counts
\* add up to the number of rows.
C4_PartitionOfAllRows ==
  CategoriesAnswered =>
    LET cc == resp.body
    IN /\ Disjoint(resp.level, cc)
       /\ UNION {FilterIdx(resp.level, cc[i].name) : i \in DOMAIN cc} = AllIdx
       /\ SeqSum([i \in DOMAIN cc |-> cc[i].count]) = Len(job_data.rows)

\* C4 amended: the filters by the listed names are pairwise disjoint, their
\* union is the rows whose value at the level is present, each count is the
\* size of its filter's result and the counts add up to the number of rows
\* with a value at the level.
C4_PartitionOfValuedRows ==
  CategoriesAnswered =>
    LET cc == resp.body
    IN /\ Disjoint(resp.level, cc)
       /\ UNION {FilterIdx(resp.level, cc[i].name) : i \in DOMAIN cc} = ValuedIdx(resp.level)
       /\ \A i \in DOMAIN cc : cc[i].count = Cardinality(FilterIdx(resp.level, cc[i].name))
       /\ SeqSum([i \in DOMAIN cc |-> cc[i].count]) = Cardinality(ValuedIdx(resp.level))

\* C4 witness: the category list was answered at a level where one row has a
\* value and another has none.
C4_Witness ==
  /\ CategoriesAnswered
  /\ Len(resp.body) >= 1
  /\ ValuedIdx(resp.level) # AllIdx

\* the body of an analysis over rows that carry tasks
SampleAnalysis == CHOOSE b \in AnalysisBodies(<<TAutoPrim, TManSec>>, 1) : TRUE

\* C6: task analysis over rows that carry no task answers with the same keys
\* as over rows that carry tasks, at the top and inside automation_status and
\* task_type_distribution (with "other"), every count 0, both lists empty.
C6_ZeroShapeHasEveryKey ==
  (/\ Handled
   /\ resp.route = "task_analysis"
   /\ Pool(RespRows) = <<>>)
  => /\ resp.kind = "ok"
     /\ DOMAIN resp.body = DOMAIN SampleAnalysis
     /\ DOMAIN resp.body.automation_status = DOMAIN SampleAnalysis.automation_status
     /\ DOMAIN resp.body.task_type_distribution
          = DOMAIN SampleAnalysis.task_type_distribution
     /\ resp.body.total_tasks = 0
     /\ \A k \in DOMAIN resp.body.automation_status : resp.body.automation_status[k] = 0
     /\ \A k \in DOMAIN resp.body.task_type_distribution :
          resp.body.task_type_distribution[k] = 0
     /\ resp.body.automation_drivers = <<>>
     /\ resp.body.automation_barriers = <<>>

\* the level-4 categories of the rows whose pooled tasks are not empty
PooledCategories(fd) == {c \in Range(GroupKeys(fd)) : Pool(Group(fd, c)) # <<>>}

\* C7: over data with the level-4 column, the matrix has exactly one point for
\* each level-4 category of the filtered rows whose pooled tasks are not
\* empty and none for the others; each point counts the pooled tasks and the
\* rows of its category.
C7_OnePointPerPooledCategory ==
  (/\ Handled
   /\ resp.route = "automation_matrix"
   /\ 4 \in job_data.levels)
  => /\ resp.kind = "ok"
     /\ LET m == resp.body.matrix_data
        IN /\ {m[i].category : i \in DOMAIN m} = PooledCategories(RespRows)
           /\ Len(m) = Cardinality(PooledCategories(RespRows))
           /\ \A i \in DOMAIN m :
                /\ m[i].total_tasks = Len(Pool(Group(RespRows, m[i].category)))
                /\ m[i].total_jobs = Len(Group(RespRows, m[i].category))

\* list ranks the reasons qs: at most 10 entries, counts exact and
\* descending, no reason twice, none left out that outnumbers a listed one
RankedFrom(list, qs) ==
  /\ Len(list) <= 10
  /\ \A i \in DOMAIN list :
       /\ list[i].count = Count(qs, LAMBDA q : q = list[i].reason)
       /\ list[i].count > 0
       /\ \A j \in DOMAIN list : i < j =>
            list[i].count >= list[j].count /\ list[i].reason # list[j].reason
  /\ \A q \in Range(qs) :
       \/ \E i \in DOMAIN list : list[i].reason = q
       \/ /\ Len(list) = 10
          /\ \A i \in DOMAIN list : list[i].count >= Count(qs, LAMBDA x : x = q)

\* C8: over a non-empty pool, the drivers count the cleaned questions of the
\* Automatable tasks only and the barriers those of all other tasks; each
\* list has at most 10 entries in descending count, each count is the number
\* of occurrences on its side, and no reason left out outnumbers one listed.
C8_DriversAndBarriersRanked ==
  (/\ Handled
   /\ resp.route = "task_analysis"
   /\ Pool(RespRows) # <<>>)
  => /\ resp.kind = "ok"
     /\ RankedFrom(resp.body.automation_drivers,
                   Questions(SelectSeq(Pool(RespRows), LAMBDA t : t.flag = "Automatable")))
     /\ RankedFrom(resp.body.automation_barriers,
                   Questions(SelectSeq(Pool(RespRows), LAMBDA t : t.flag # "Automatable")))

\* C10: over data with the level-4 column, tasks that lack the flag, the
\* classification or the question never make the matrix or the task analysis
\* fail; the analysis counts a task without flag as non-automatable and one
\* without classification as "other".
C10_AbsentFieldsNeverFail ==
  (/\ Handled
   /\ resp.route \in {"automation_matrix", "task_analysis"}
   /\ 4 \in job_data.levels)
  => /\ resp.kind = "ok"
     /\ (resp.route = "task_analysis" /\ Pool(RespRows) # <<>>) =>
          /\ resp.body.automation_status.non_automatable
               = Count(Pool(RespRows), LAMBDA t : t.flag # "Automatable")
          /\ resp.body.task_type_distribution.other
               >= Count(Pool(RespRows), LAMBDA t : t.cls = Absent)

\* the quadrant the reported percentages (in tenths) give
QuadrantOfReported(ro, rp) ==
  IF ro < 500 /\ rp >= 500 THEN "upper_left"
  ELSE IF ro >= 500 /\ rp >= 500 THEN "upper_right"
  ELSE IF ro < 500 /\ rp < 500 THEN "lower_left"
  ELSE "lower_right"

\* C5 as claimed: every point's quadrant is the one its reported one-decimal
\* percentages give with the thresholds at 50.0, 50.0 on the upper side.
C5_QuadrantOfReportedPct ==
  \A i \in DOMAIN qout :
    qout[i].quadrant
      = QuadrantOfReported(qout[i].overall_automation_pct, qout[i].primary_automation_pct)

OnRight(pt) == pt.quadrant \in {"upper_right", "lower_right"}
OnTop(pt) == pt.quadrant \in {"upper_left", "upper_right"}

\* C5 amended: the quadrant is the one the unrounded percentages give with
\* the thresholds at 50, 50 on the upper side; it is also the one the
\* reported percentages give, unless a percentage in [49.95, 50) is reported
\* as 50.0, which stays on the lower side.
C5_QuadrantOfUnroundedPct ==
  \A i \in DOMAIN qout :
    LET pt == qout[i]
    IN /\ pt.quadrant \in {"upper_left", "upper_right", "lower_left", "lower_right"}
       /\ OnRight(pt) <=> 100 * qin.a >= 50 * qin.n
       /\ OnTop(pt) <=> (qin.p > 0 /\ 100 * qin.pa >= 50 * qin.p)
       /\ OnRight(pt) # (pt.overall_automation_pct >= 500) =>
            /\ pt.overall_automation_pct = 500
            /\ 2 * qin.a < qin.n
            /\ 2000 * qin.a >= 999 * qin.n
       /\ OnTop(pt) # (pt.primary_automation_pct >= 500) =>
            /\ pt.primary_automation_pct = 500
            /\ 2 * qin.pa < qin.p
            /\ 2000 * qin.pa >= 999 * qin.p

\* C5 witness: a point reported as 50.0 overall and 50.0 primary whose
\* unrounded overall percentage is below 50: it is placed upper_left.
C5_Witness ==
  /\ qout # <<>>
  /\ qout[1].overall_automation_pct = 500
  /\ qout[1].primary_automation_pct = 500
  /\ qout[1].quadrant = "upper_left"

\* the handle holds a frame some thread finished building
FullyConstructed(jd) ==
  \E t \in Threads :
    /\ df[t].stage = "parsed"
    /\ jd.rows = df[t].rows
    /\ jd.levels = df[t].schema.levels

\* C9: under every interleaving the handle is None or a frame whose scores
\* are coerced, failing rows dropped and task cells parsed, and all the reads
\* of the handle one request makes after seeing it loaded see the same frame.
C9_SameSnapshotWithinRequest ==
  /\ job_data.loaded => FullyConstructed(job_data)
  /\ \A t \in Threads :
       \A i, j \in DOMAIN reads[t] : reads[t][i].data = reads[t][j].data

====
